---- MODULE Spec2Model ----
(***************************************************************************)
(* Model of the widget-setup tool server: the two operations               *)
(* initialize_repo (widget_setup_server.py) and get_prompt                 *)
(* (widget_setup_server.py and prompt_tool.py), acting on a file system,   *)
(* the process working directory and two external binaries.                *)
(*                                                                         *)
(* A Python string that is used as a path is the sequence of its           *)
(* components, i.e. the result of s.split("/"):                            *)
(*    ""      is  <<"">>          "a/b"   is  <<"a", "b">>                  *)
(*    "/a/b"  is  <<"", "a", "b">>    "/a/b/" is <<"", "a", "b", "">>       *)
(* Python None is the empty sequence.  A location in the file system is    *)
(* the sequence of names from the root (the root is <<>>).                 *)
(* Any other text (documents, messages) is a sequence of tokens.           *)
(***************************************************************************)
EXTENDS Integers, Sequences, FiniteSets, TLC

\* ------------------------------------------------------------------------
\* Bounds of the model
\* ------------------------------------------------------------------------
MaxCalls == 2
MaxBytes == 4

\* ------------------------------------------------------------------------
\* Python values
\* ------------------------------------------------------------------------
None == <<>>
EmptyStr == <<"">>
Str(s) == <<s>>
Falsy(s) == s = None \/ s = EmptyStr

Last(s) == s[Len(s)]
Front(s) == SubSeq(s, 1, Len(s) - 1)

StartsWithSep(p) == Len(p) > 1 /\ p[1] = ""
EndsWithSep(p) == Len(p) > 1 /\ Last(p) = ""
AllSeps(p) == \A i \in 1..Len(p) : p[i] = ""

RECURSIVE RStripSep(_)
RStripSep(p) ==
  IF Len(p) > 1 /\ Last(p) = "" THEN RStripSep(Front(p)) ELSE p

\* posixpath.basename: everything after the last separator
basename(p) == Str(Last(p))

\* posixpath.dirname: everything up to the last separator, trailing
\* separators stripped unless the head consists of separators only
dirname(p) ==
  IF Len(p) = 1 THEN EmptyStr
  ELSE LET head == Front(p) \o <<"">>
       IN  IF AllSeps(head) THEN head ELSE RStripSep(head)

\* posixpath.join of two strings
join(a, b) ==
  IF StartsWithSep(b) THEN b
  ELSE IF a = EmptyStr \/ EndsWithSep(a) THEN Front(a) \o b
  ELSE a \o b

\* os.getcwd(): the absolute path string of a location
PathStr(loc) == IF loc = <<>> THEN <<"", "">> ELSE <<"">> \o loc

\* the kernel's resolution of a path string against the working directory
RECURSIVE Walk(_, _, _)
Walk(loc, p, i) ==
  IF i > Len(p) THEN loc
  ELSE IF p[i] = "" \/ p[i] = "." THEN Walk(loc, p, i + 1)
  ELSE IF p[i] = ".." THEN Walk(IF loc = <<>> THEN loc ELSE Front(loc), p, i + 1)
  ELSE Walk(Append(loc, p[i]), p, i + 1)

Resolve(wd, p) == Walk(IF StartsWithSep(p) THEN <<>> ELSE wd, p, 1)

\* the text of a path string inside a document or message
RECURSIVE PathTokens(_)
PathTokens(p) ==
  IF Len(p) = 1 THEN <<p[1]>>
  ELSE PathTokens(Front(p)) \o <<"/", Last(p)>>

\* ", ".join(list of token sequences)
RECURSIVE JoinComma(_)
JoinComma(l) ==
  IF l = <<>> THEN <<>>
  ELSE IF Len(l) = 1 THEN l[1]
  ELSE JoinComma(Front(l)) \o <<", ">> \o Last(l)

\* ------------------------------------------------------------------------
\* The file system: directories, regular files with their content, and
\* the locations to which the process is denied access: a directory in
\* which it may not create entries, a file it may not open
\* ------------------------------------------------------------------------
Prefixes(loc) == {SubSeq(loc, 1, k) : k \in 0..Len(loc)}

Exists(ds, fl, loc) == loc \in ds \/ loc \in DOMAIN fl

DeepestDir(ds, loc) ==
  CHOOSE q \in Prefixes(loc) \cap ds :
    \A r \in Prefixes(loc) \cap ds : Len(r) <= Len(q)

\* os.makedirs(loc, exist_ok=True) raises
MakedirsFails(ds, fl, rd, loc) ==
  \/ \E q \in Prefixes(loc) : q \in DOMAIN fl
  \/ loc \notin ds /\ DeepestDir(ds, loc) \in rd

Makedirs(ds, loc) == ds \cup Prefixes(loc)

\* open(loc, "w") raises
OpenWriteFails(ds, fl, rd, loc) ==
  \/ loc \in ds
  \/ loc = <<>>
  \/ Front(loc) \notin ds
  \/ loc \notin DOMAIN fl /\ Front(loc) \in rd

\* the file at loc holds exactly text
WriteAppends(fl, loc, text) ==
  IF loc \in DOMAIN fl THEN [fl EXCEPT ![loc] = @ \o text]
  ELSE (loc :> text) @@ fl

WriteText(fl, loc, text) == (loc :> text) @@ fl

\* ------------------------------------------------------------------------
\* base64.b64encode on a sequence of bytes, as a sequence of characters
\* ------------------------------------------------------------------------
B64Alphabet ==
  << "A", "B", "C", "D", "E", "F", "G", "H", "I", "J", "K", "L", "M", "N", "O", "P",
     "Q", "R", "S", "T", "U", "V", "W", "X", "Y", "Z", "a", "b", "c", "d", "e", "f",
     "g", "h", "i", "j", "k", "l", "m", "n", "o", "p", "q", "r", "s", "t", "u", "v",
     "w", "x", "y", "z", "0", "1", "2", "3", "4", "5", "6", "7", "8", "9", "+", "/" >>

RECURSIVE b64encode(_)

b64encode_first_group(bs) ==
  IF bs = <<>> THEN <<>>
  ELSE LET n  == Len(bs)
           b2 == IF n >= 2 THEN bs[2] ELSE 0
           b3 == IF n >= 3 THEN bs[3] ELSE 0
           v  == bs[1] * 65536 + b2 * 256 + b3
           c1 == B64Alphabet[(v \div 262144) + 1]
           c2 == B64Alphabet[((v \div 4096) % 64) + 1]
           c3 == IF n >= 2 THEN B64Alphabet[((v \div 64) % 64) + 1] ELSE "="
           c4 == IF n >= 3 THEN B64Alphabet[(v % 64) + 1] ELSE "="
       IN  <<c1, c2, c3, c4>>

b64encode(bs) ==
  IF bs = <<>> THEN <<>>
  ELSE LET n  == Len(bs)
           b2 == IF n >= 2 THEN bs[2] ELSE 0
           b3 == IF n >= 3 THEN bs[3] ELSE 0
           v  == bs[1] * 65536 + b2 * 256 + b3
           c1 == B64Alphabet[(v \div 262144) + 1]
           c2 == B64Alphabet[((v \div 4096) % 64) + 1]
           c3 == IF n >= 2 THEN B64Alphabet[((v \div 64) % 64) + 1] ELSE "="
           c4 == IF n >= 3 THEN B64Alphabet[(v % 64) + 1] ELSE "="
       IN  <<c1, c2, c3, c4>> \o b64encode(IF n > 3 THEN SubSeq(bs, 4, n) ELSE <<>>)

\* ------------------------------------------------------------------------
\* Constants of the program and the locations the model uses
\* ------------------------------------------------------------------------
\* os.path.expanduser("~/javascript") with the home directory /home
DEFAULT_WORKSPACE == <<"", "home", "javascript">>

TemplateUrl == "https://github.com/Nuosis/js-ai-dev-environment.git"

Cwd1 == <<"home", "w">>
Cwd2 == <<"home", "javascript", "w">>
StyleLoc == <<"home", "s.css">>
StyleBytes == <<104, 105>>
LockedLoc == <<"home", "locked.css">>
RepoLoc == <<"home", "repo">>

\* an optional list argument: omitted (None) or a list
Omitted == [given |-> FALSE, items |-> <<>>]
List(l) == [given |-> TRUE, items |-> l]

\* an entry of stylePaths: a string, or an integer (prompt_tool declares
\* stylePaths as List[int])
StrEntry(p) == [t |-> "str", s |-> p]
IntEntry == [t |-> "int", s |-> <<"5">>]

\* ------------------------------------------------------------------------
\* get_prompt: the Input Resolver
\* ------------------------------------------------------------------------
\* the default of techStack when it is None
DefaultTechStack(variant) == IF variant = "tool" THEN <<2>> ELSE <<>>

\* the catalog 1 -> CommonJS, 2 -> React, 3 -> Next.js, in input order
RECURSIVE tech_stack_names(_)

tech_stack_names_else_branch(techStack) ==
  [i \in 1..Len(techStack) |->
     IF techStack[i] = 1 THEN "CommonJS"
     ELSE IF techStack[i] = 2 THEN "React"
     ELSE "Next.js"]

tech_stack_names(techStack) ==
  IF techStack = <<>> THEN <<>>
  ELSE LET tech == techStack[1]
           rest == tech_stack_names(Tail(techStack))
       IN  IF tech = 1 THEN <<"CommonJS">> \o rest
           ELSE IF tech = 2 THEN <<"React">> \o rest
           ELSE IF tech = 3 THEN <<"Next.js">> \o rest
           ELSE rest

FileNameFallback(variant) == IF variant = "tool" THEN "jsDev.fmp12" ELSE "(default)"
ScriptNameFallback == "JS * fetch"
FileMakerPathFallback == "(use repo default)"

\* if not <field>: <field> = <fallback>
OrDefaultAlways(value, fallback) == fallback

OrDefault(value, fallback) == IF value = "" THEN fallback ELSE value

ts_status(useTypeScript) == IF useTypeScript THEN "enabled" ELSE "disabled"

\* ------------------------------------------------------------------------
\* get_prompt: the Asset Encoder
\* ------------------------------------------------------------------------
\* os.path.isfile(style_path)
isfile(wd, fl, e) == e.t = "str" /\ Resolve(wd, e.s) \in DOMAIN fl

\* open(style_path, "rb") raises (PermissionError)
OpenReadFails(wd, rd, e) == Resolve(wd, e.s) \in rd

\* one turn of the loop: the file is embedded; a path that is no regular
\* file, and one whose read raised (except Exception), is kept as it is
ProcessStyleNoDelimiters(wd, fl, rd, e) ==
  IF isfile(wd, fl, e) /\ ~OpenReadFails(wd, rd, e)
  THEN [t |-> "str", s |-> b64encode(fl[Resolve(wd, e.s)])]
  ELSE IF e.t = "str" THEN [t |-> "str", s |-> PathTokens(e.s)]
  ELSE e

ProcessStyle(wd, fl, rd, e) ==
  IF isfile(wd, fl, e) /\ ~OpenReadFails(wd, rd, e)
  THEN [t |-> "str", s |-> <<"<<">> \o b64encode(fl[Resolve(wd, e.s)]) \o <<">>">>]
  ELSE IF e.t = "str" THEN [t |-> "str", s |-> PathTokens(e.s)]
  ELSE e

processed_styles(wd, fl, rd, stylePaths) ==
  [i \in 1..Len(stylePaths) |-> ProcessStyle(wd, fl, rd, stylePaths[i])]

\* ------------------------------------------------------------------------
\* get_prompt: the Prompt Composer
\* ------------------------------------------------------------------------
\* How evaluating the f-string ends.  ", ".join raises TypeError on an
\* entry that is not a string.  The template of widget_setup_server has
\* unescaped braces in its script listing ({"action": "update", ...
\* "fieldData": {"f_completed": 1 ...}}), which Python evaluates as a
\* replacement field with a format specification: ValueError.
ComposeOutcome(variant, styles) ==
  IF \E i \in 1..Len(styles) : styles[i].t # "str" THEN "TypeError"
  ELSE IF variant = "server" THEN "ValueError"
  ELSE "ok"

StylesText(styles) ==
  IF styles = <<>> THEN <<"(none)">>
  ELSE JoinComma([i \in 1..Len(styles) |-> styles[i].s])

\* ', '.join(tech_stack_names)
StackTextReversed(names) ==
  JoinComma([i \in 1..Len(names) |-> <<names[Len(names) + 1 - i]>>])

StackText(names) == JoinComma([i \in 1..Len(names) |-> <<names[i]>>])

\* the text of prompt_tool's template; its TASKS section escapes the
\* braces, so the four names appear there literally
Prompt(projectName, widgetIntention, fileName, styles, names, ts, stateLibrary) ==
  <<"## CONTEXT This is a widget project named '">>
  \o PathTokens(projectName)
  \o <<"' that the user described in the following: \"", widgetIntention, "\".",
       "- FileMaker file: ", fileName,
       "- Styles/examples: ">>
  \o StylesText(styles)
  \o <<"- Tech stack: ">>
  \o StackText(names)
  \o <<", TypeScript: ", ts,
       ", State management: ", OrDefault(stateLibrary, "none"), ".",
       "[FileMakerService note, EXAMPLES, script listings, Additional Information, IMPORTANT]",
       "## TASKS 1) Complete the set up by updating 'widget.config.cjs'",
       "module.exports = widgetName: \"{projectName}\" || \"jsDev\",",
       "server: \"{fileMakerPath}\" || \"$\",",
       "file: \"{fileName}\" || \"jsDev\",",
       "uploadScript: \"{scriptName}\" || \"UploadToHTML\"",
       "[tasks 2) and 3), finishing steps]",
       "## CONSTRAINTS [...]">>

\* ------------------------------------------------------------------------
\* get_prompt: the Scaffold Writer
\* ------------------------------------------------------------------------
\* if projectName == os.path.basename(current_dir): ... else: ...
project_dir_in_workspace(projectName, current_dir) ==
  join(DEFAULT_WORKSPACE, projectName)

project_dir(projectName, current_dir) ==
  IF projectName = basename(current_dir) THEN current_dir
  ELSE join(DEFAULT_WORKSPACE, projectName)

prompt_file_path(dir) == join(join(dir, Str("coding_prompts")), Str("llm_prompt.md"))

\* f.write(f"# LLM Prompt\n{prompt}")
FileTextNoHeading(text) == text

FileText(text) == <<"# LLM Prompt">> \o text

SaveFailureDropsPrompt(exc, text) == [error |-> <<"Failed to save prompt: ", exc>>]

SaveFailureValue(exc, text) ==
  [error |-> <<"Failed to save prompt: ", exc>>, prompt |-> text]

SaveSuccessValue(path, text) ==
  [result |-> <<"Prompt generated and saved to ">> \o PathTokens(path), prompt |-> text]

Return(value) == [kind |-> "return", value |-> value]
Raise(exc) == [kind |-> "raise", exc |-> exc]
NoReturn == [kind |-> "none"]

\* ------------------------------------------------------------------------
\* State
\* ------------------------------------------------------------------------
VARIABLES
  cwd,      \* the process working directory (a location)
  dirs,     \* the directories that exist
  files,    \* the regular files that exist, with their content
  ro,       \* the directories in which no entry can be created and the
            \* files that cannot be opened
  bins,     \* the external binaries that are installed
  prompt,   \* the get_prompt call in progress or last completed: its
            \* position, arguments, locals and returned value, and for the
            \* properties how the save ended and the content it replaced
  init,     \* the initialize_repo call in progress or last completed: its
            \* position, arguments, locals and returned value, and for the
            \* properties the working directory at entry, whether it was
            \* changed, and how the subprocesses ended
  calls     \* the number of calls made so far

vars == <<cwd, dirs, files, ro, bins, prompt, init, calls>>

\* ------------------------------------------------------------------------
\* The requests the model issues
\* ------------------------------------------------------------------------
PromptRequest(variant, widgetIntention, projectName, fileName, techStack, stylePaths) ==
  [variant |-> variant, widgetIntention |-> widgetIntention,
   projectName |-> projectName, fileMakerPath |-> "", fileName |-> fileName,
   scriptName |-> "", techStack |-> techStack, useTypeScript |-> FALSE,
   stateLibrary |-> "", stylePaths |-> stylePaths]

Variants == {"server", "tool"}
ProjectNames == {None, Str("w"), Str("p"), <<"", "home", "p">>}
TechStacks == {Omitted, List(<<2>>), List(<<3, 7, 1>>)}
StyleLists ==
  {Omitted,
   List(<<StrEntry(PathStr(StyleLoc)), StrEntry(Str("theme.css")),
          StrEntry(PathStr(LockedLoc)), StrEntry(PathStr(Front(StyleLoc)))>>),
   List(<<IntEntry>>)}

PromptRequests ==
  {PromptRequest(v, wi, pn, "", Omitted, Omitted) :
     v \in Variants, wi \in {"", "x"}, pn \in ProjectNames}
  \cup
  {PromptRequest(v, "x", None, fn, ts, sp) :
     v \in Variants, fn \in {"", "f.fmp12"}, ts \in TechStacks, sp \in StyleLists}

NoPromptRequest == PromptRequest("tool", "", None, "", Omitted, Omitted)

PromptIdle ==
  [pc |-> "idle", req |-> NoPromptRequest, projectName |-> None,
   tech_stack_names |-> <<>>, fileName |-> "", scriptName |-> "",
   fileMakerPath |-> "", ts_status |-> "", processed_styles |-> <<>>,
   prompt_file_path |-> None, save |-> "none", replaced |-> <<>>,
   ret |-> NoReturn]

\* ------------------------------------------------------------------------
\* Initial states: a home directory with a style file, a style file that
\* the process may not read and an existing
\* repository, the working directory outside or inside the workspace, and
\* one of the conditions under which a step of the operations fails
\* ------------------------------------------------------------------------
Conditions == {"none", "cwd_gone", "ro_cwd", "ro_prompts", "no_git", "no_npm"}

Environments == {<<Cwd2, "none">>} \cup {<<Cwd1, c>> : c \in Conditions}

InitDirs(wd, c) ==
  (Prefixes(RepoLoc) \cup {Append(RepoLoc, ".git")}
   \cup (IF c = "cwd_gone" THEN Prefixes(Front(wd)) ELSE Prefixes(wd))
   \cup (IF c = "ro_prompts" THEN {Append(wd, "coding_prompts")} ELSE {}))

InitRo(wd, c) ==
  {LockedLoc}
  \cup (IF c = "ro_cwd" THEN {wd}
        ELSE IF c = "ro_prompts" THEN {Append(wd, "coding_prompts")}
        ELSE {})

InitFiles == (StyleLoc :> StyleBytes) @@ (LockedLoc :> <<46, 120>>)

InitBins(c) ==
  IF c = "no_git" THEN {"npm"} ELSE IF c = "no_npm" THEN {"git"} ELSE {"git", "npm"}

\* ------------------------------------------------------------------------
\* get_prompt, first part: resolve the inputs and encode the style assets
\* (widget_setup_server.py 240-294, prompt_tool.py 54-108)
\* ------------------------------------------------------------------------
PromptResolved(req, projectName) ==
  [pc |-> "compose", req |-> req, projectName |-> projectName,
   tech_stack_names |->
     tech_stack_names(IF req.techStack.given THEN req.techStack.items
                      ELSE DefaultTechStack(req.variant)),
   fileName |-> OrDefault(req.fileName, FileNameFallback(req.variant)),
   scriptName |-> OrDefault(req.scriptName, ScriptNameFallback),
   fileMakerPath |-> OrDefault(req.fileMakerPath, FileMakerPathFallback),
   ts_status |-> ts_status(req.useTypeScript),
   processed_styles |-> processed_styles(cwd, files, ro, req.stylePaths.items),
   prompt_file_path |-> None, save |-> "none", replaced |-> <<>>,
   ret |-> NoReturn]

PromptEnds(req, ret) == [PromptIdle EXCEPT !.pc = "done", !.req = req, !.ret = ret]

\* os.getcwd() as get_prompt reads it: the working directory of the process
getcwd_before_initialize_repo ==
  IF init.pc \in {"idle", "done"} THEN PathStr(cwd) ELSE PathStr(init.entry_cwd)

getcwd == PathStr(cwd)

get_prompt_begin(req) ==
  /\ calls < MaxCalls
  /\ prompt.pc # "compose"
  /\ calls' = calls + 1
  /\ prompt' =
       IF Falsy(req.projectName) /\ cwd \notin dirs
       THEN PromptEnds(req, Raise("FileNotFoundError"))
       ELSE IF req.widgetIntention = ""
       THEN PromptEnds(req, Return([error |-> <<"Widget intention is required">>]))
       ELSE PromptResolved(req, IF Falsy(req.projectName)
                                THEN basename(getcwd)
                                ELSE req.projectName)
  /\ UNCHANGED <<cwd, dirs, files, ro, bins, init>>

\* a get_prompt call that starts while no initialize_repo call is running
get_prompt_resolve(req) ==
  /\ init.pc \in {"idle", "done"}
  /\ get_prompt_begin(req)

\* ------------------------------------------------------------------------
\* get_prompt, second part: compose the text and save it
\* (widget_setup_server.py 296-852, prompt_tool.py 110-870)
\* ------------------------------------------------------------------------
\* the exception that leaves get_prompt when composing the text raises exc:
\* widget_setup_server composes outside the try block; prompt_tool composes
\* inside it, and its handler then reads the unbound local "prompt"
ComposeFailure(variant, exc) ==
  IF variant = "tool" THEN Raise("UnboundLocalError") ELSE Raise(exc)

get_prompt_save ==
  /\ prompt.pc = "compose"
  /\ LET outcome == ComposeOutcome(prompt.req.variant, prompt.processed_styles)
         text == Prompt(prompt.projectName, prompt.req.widgetIntention,
                        prompt.fileName, prompt.processed_styles,
                        prompt.tech_stack_names, prompt.ts_status,
                        prompt.req.stateLibrary)
         current_dir == getcwd
         path == prompt_file_path(project_dir(prompt.projectName, current_dir))
         dloc == Resolve(cwd, dirname(path))
         floc == Resolve(cwd, path)
     IN  IF outcome # "ok"
         THEN /\ prompt' = [prompt EXCEPT !.pc = "done",
                              !.ret = ComposeFailure(prompt.req.variant, outcome)]
              /\ UNCHANGED <<dirs, files>>
         ELSE IF cwd \notin dirs
         THEN /\ prompt' = [prompt EXCEPT !.pc = "done", !.save = "getcwd_failed",
                              !.ret = Return(SaveFailureValue("FileNotFoundError", text))]
              /\ UNCHANGED <<dirs, files>>
         ELSE IF MakedirsFails(dirs, files, ro, dloc)
         THEN /\ prompt' = [prompt EXCEPT !.pc = "done", !.prompt_file_path = path,
                              !.save = "makedirs_failed",
                              !.ret = Return(SaveFailureValue("makedirs: OSError", text))]
              /\ UNCHANGED <<dirs, files>>
         ELSE IF OpenWriteFails(Makedirs(dirs, dloc), files, ro, floc)
         THEN /\ prompt' = [prompt EXCEPT !.pc = "done", !.prompt_file_path = path,
                              !.save = "open_failed",
                              !.ret = Return(SaveFailureValue("open: OSError", text))]
              /\ dirs' = Makedirs(dirs, dloc)
              /\ UNCHANGED files
         ELSE /\ prompt' = [prompt EXCEPT !.pc = "done", !.prompt_file_path = path,
                              !.save = "written",
                              !.replaced = IF floc \in DOMAIN files THEN files[floc]
                                           ELSE <<>>,
                              !.ret = Return(SaveSuccessValue(path, text))]
              /\ dirs' = Makedirs(dirs, dloc)
              /\ files' = WriteText(files, floc, FileText(text))
  /\ UNCHANGED <<cwd, ro, bins, init, calls>>

\* ------------------------------------------------------------------------
\* initialize_repo
\* ------------------------------------------------------------------------
InitRequest(projectName, projectDir) ==
  [projectName |-> projectName, projectDir |-> projectDir]

ProjectDirs ==
  {None, PathStr(Cwd1), PathStr(Append(Cwd1, "proj")), PathStr(RepoLoc),
   Str("proj"), <<"..", "w2">>, <<".", "proj">>, PathStr(Cwd1) \o <<"">>}

InitRequests ==
  {InitRequest(None, d) : d \in ProjectDirs}
  \cup {InitRequest(Str("widget"), PathStr(Append(Cwd1, "proj")))}

InitIdle ==
  [pc |-> "idle", req |-> InitRequest(None, None), projectName |-> None,
   target_dir |-> None, original_dir |-> None,
   entry_cwd |-> <<>>, changed |-> FALSE,
   cloneCalls |-> 0, clone |-> "none", installCalls |-> 0, install |-> "none",
   e_cmd |-> <<>>, e_stderr |-> "",
   stubWritten |-> FALSE, promptsMade |-> FALSE, ret |-> NoReturn]

StubBody == <<"import FMGofer from 'fm-gofer'; [...] export default FileMakerService;">>
TemplateStubBody == <<"// FileMakerService.js of the template repository">>

clone_cmd(target_dir) == <<"git", "clone", TemplateUrl>> \o basename(target_dir)
npm_cmd == <<"npm", "install">>

fm_service_path(target_dir) ==
  join(join(join(target_dir, Str("src")), Str("services")), Str("FileMakerService.js"))

prompts_dir(target_dir) == join(target_dir, Str("coding_prompts"))

\* subprocess.run(..., check=True) raises CalledProcessError
CheckDisabled(returncode) == FALSE

CalledProcessError(returncode) == returncode # 0

\* the handlers' "if 'original_dir' in locals(): os.chdir(original_dir)"
RestoreSkipped(original_dir, cur) == cur

RestoreCwd(original_dir, cur) ==
  IF original_dir = None THEN cur ELSE Resolve(cur, original_dir)

RestoreFails(original_dir, ds, cur) ==
  original_dir # None /\ Resolve(cur, original_dir) \notin ds

CalledProcessErrorDropsStderr(cmd, stderr) ==
  [error |-> <<"Command failed: ">> \o cmd]

\* except subprocess.CalledProcessError: the returned value
CalledProcessErrorValue(cmd, stderr) ==
  [error |-> <<"Command failed: ">> \o cmd \o <<". Error: ", stderr>>]

\* except Exception: the returned value
ExceptionValue(exc) == [error |-> <<"Failed to initialize widget project: ", exc>>]

SuccessValue(projectName, target_dir) ==
  [result |-> <<"Widget project '">> \o PathTokens(projectName)
              \o <<"' initialized successfully at ">> \o PathTokens(target_dir),
   project_path |-> target_dir]

\* an except clause of initialize_repo runs: it restores the working
\* directory if original_dir was assigned and returns value; an exception
\* raised by the restoring chdir leaves the function
Handle(rec, value) ==
  /\ cwd' = IF RestoreFails(rec.original_dir, dirs, cwd) THEN cwd
            ELSE RestoreCwd(rec.original_dir, cwd)
  /\ init' = [rec EXCEPT !.pc = "done",
                !.ret = IF RestoreFails(rec.original_dir, dirs, cwd)
                        THEN Raise("FileNotFoundError") ELSE Return(value)]

InitEnds(req, ret) == [InitIdle EXCEPT !.pc = "done", !.req = req, !.ret = ret,
                                       !.entry_cwd = cwd]

\* os.path.join(target_dir, ".git")
git_dir_of_parent(target_dir) == join(dirname(target_dir), Str(".git"))

git_dir(target_dir) == join(target_dir, Str(".git"))

\* lines 31-54: defaults, validation and the precondition
initialize_repo_call(req) ==
  /\ calls < MaxCalls
  /\ init.pc \in {"idle", "done"}
  /\ prompt.pc # "compose"
  /\ calls' = calls + 1
  /\ LET current_dir == basename(PathStr(cwd))
         projectName == IF Falsy(req.projectName) THEN current_dir ELSE req.projectName
         target_dir == req.projectDir
     IN  init' =
           IF cwd \notin dirs THEN InitEnds(req, Raise("FileNotFoundError"))
           ELSE IF Falsy(projectName)
           THEN InitEnds(req, Return([error |->
                  <<"Project name is required and could not be determined automatically">>]))
           ELSE IF Falsy(req.projectDir)
           THEN InitEnds(req, Return([error |->
                  <<"Project directory (fully qualified path) is required">>]))
           ELSE IF Exists(dirs, files, Resolve(cwd, git_dir(target_dir)))
           THEN InitEnds(req, Return([error |->
                  <<"Directory '">> \o PathTokens(target_dir)
                  \o <<"' is already a git repository. Cannot initialize a new repository here.">>]))
           ELSE [InitIdle EXCEPT !.pc = "chdir_parent", !.req = req,
                   !.projectName = projectName, !.target_dir = target_dir,
                   !.entry_cwd = cwd]
  /\ UNCHANGED <<cwd, dirs, files, ro, bins, prompt>>

\* lines 56-64: remember the working directory, change to the parent
initialize_repo_chdir_parent ==
  /\ init.pc = "chdir_parent"
  /\ LET parent_dir == dirname(init.target_dir)
         ploc == Resolve(cwd, parent_dir)
     IN  IF cwd \notin dirs
         THEN Handle(init, ExceptionValue("FileNotFoundError"))
         ELSE IF parent_dir = EmptyStr \/ ploc \notin dirs
         THEN Handle([init EXCEPT !.original_dir = PathStr(cwd)],
                     ExceptionValue("FileNotFoundError"))
         ELSE /\ cwd' = ploc
              /\ init' = [init EXCEPT !.pc = "clone", !.original_dir = PathStr(cwd),
                                      !.changed = TRUE]
  /\ UNCHANGED <<dirs, files, ro, bins, prompt, calls>>

\* the runs of "git clone <url> <dest>" in the directory wd: exit status,
\* error stream, and whether the template ships its own service file
IsEmptyDir(ds, fl, loc) ==
  /\ loc \in ds
  /\ \A d \in ds : d = loc \/ loc \notin Prefixes(d)
  /\ \A f \in DOMAIN fl : loc \notin Prefixes(f)

CloneCanSucceed(wd, ds, fl, rd, dest) ==
  /\ dest # EmptyStr
  /\ wd \in ds
  /\ LET loc == Resolve(wd, dest)
     IN  \/ ~Exists(ds, fl, loc) /\ wd \notin rd
         \/ IsEmptyDir(ds, fl, loc)

CloneRuns(wd, ds, fl, rd, dest) ==
  {[rc |-> 128, stderr |-> "fatal: unable to access the repository", stub |-> FALSE]}
  \cup (IF CloneCanSucceed(wd, ds, fl, rd, dest)
        THEN {[rc |-> 0, stderr |-> "", stub |-> b] : b \in BOOLEAN}
        ELSE {[rc |-> 128, stderr |-> "fatal: could not create work tree",
               stub |-> FALSE]})

ClonedDirs(loc, stub) ==
  {loc, Append(loc, ".git")}
  \cup (IF stub THEN {loc \o <<"src">>, loc \o <<"src", "services">>} ELSE {})

ClonedFiles(loc, stub) ==
  IF stub
  THEN (loc \o <<"src", "services", "FileMakerService.js">> :> TemplateStubBody)
       @@ (Append(loc, "package.json") :> <<"{}">>)
  ELSE (Append(loc, "package.json") :> <<"{}">>)

\* lines 66-73: clone the template into the target directory
initialize_repo_clone ==
  /\ init.pc = "clone"
  /\ LET dest == basename(init.target_dir)
         loc == Resolve(cwd, dest)
         rec == [init EXCEPT !.cloneCalls = @ + 1]
     IN  IF "git" \notin bins
         THEN /\ Handle([rec EXCEPT !.clone = "oserror"],
                        ExceptionValue("FileNotFoundError"))
              /\ UNCHANGED <<dirs, files>>
         ELSE \E run \in CloneRuns(cwd, dirs, files, ro, dest) :
                LET rec2 == [rec EXCEPT !.clone = IF run.rc = 0 THEN "zero" ELSE "nonzero",
                                        !.e_cmd = IF run.rc = 0 THEN <<>>
                                                  ELSE clone_cmd(init.target_dir),
                                        !.e_stderr = run.stderr]
                IN  IF CalledProcessError(run.rc)
                    THEN /\ Handle(rec2, CalledProcessErrorValue(
                                           clone_cmd(init.target_dir), run.stderr))
                         /\ UNCHANGED <<dirs, files>>
                    ELSE /\ init' = [rec2 EXCEPT !.pc = "chdir_target"]
                         /\ dirs' = IF run.rc = 0 THEN dirs \cup ClonedDirs(loc, run.stub)
                                    ELSE dirs
                         /\ files' = IF run.rc = 0 THEN ClonedFiles(loc, run.stub) @@ files
                                     ELSE files
                         /\ UNCHANGED cwd
  /\ UNCHANGED <<ro, bins, prompt, calls>>

\* lines 75-76: change to the target directory
initialize_repo_chdir_target ==
  /\ init.pc = "chdir_target"
  /\ LET tloc == Resolve(cwd, init.target_dir)
     IN  IF tloc \notin dirs
         THEN Handle(init, ExceptionValue("FileNotFoundError"))
         ELSE /\ cwd' = tloc
              /\ init' = [init EXCEPT !.pc = "install"]
  /\ UNCHANGED <<dirs, files, ro, bins, prompt, calls>>

InstallRuns ==
  {[rc |-> 0, stderr |-> ""], [rc |-> 1, stderr |-> "npm ERR! install failed"]}

\* lines 78-82: install the dependencies
initialize_repo_install ==
  /\ init.pc = "install"
  /\ LET rec == [init EXCEPT !.installCalls = @ + 1]
     IN  IF "npm" \notin bins
         THEN /\ Handle([rec EXCEPT !.install = "oserror"],
                        ExceptionValue("FileNotFoundError"))
              /\ UNCHANGED dirs
         ELSE \E run \in InstallRuns :
                LET rec2 == [rec EXCEPT !.install = IF run.rc = 0 THEN "zero" ELSE "nonzero",
                                        !.e_cmd = IF run.rc = 0 THEN <<>> ELSE npm_cmd,
                                        !.e_stderr = run.stderr]
                IN  IF CalledProcessError(run.rc)
                    THEN /\ Handle(rec2, CalledProcessErrorValue(npm_cmd, run.stderr))
                         /\ UNCHANGED dirs
                    ELSE /\ init' = [rec2 EXCEPT !.pc = "stub"]
                         /\ dirs' = IF run.rc = 0 THEN dirs \cup {Append(cwd, "node_modules")}
                                    ELSE dirs
                         /\ UNCHANGED cwd
  /\ UNCHANGED <<files, ro, bins, prompt, calls>>

\* os.path.exists(fm_service_path)
fm_service_never_exists(ds, fl, loc) == FALSE

fm_service_exists(ds, fl, loc) == Exists(ds, fl, loc)

\* lines 84-125: create the service stub if it does not exist
initialize_repo_stub ==
  /\ init.pc = "stub"
  /\ LET path == fm_service_path(init.target_dir)
         dloc == Resolve(cwd, dirname(path))
         floc == Resolve(cwd, path)
     IN  IF MakedirsFails(dirs, files, ro, dloc)
         THEN /\ Handle(init, ExceptionValue("makedirs: OSError"))
              /\ UNCHANGED <<dirs, files>>
         ELSE IF fm_service_exists(Makedirs(dirs, dloc), files, floc)
         THEN /\ init' = [init EXCEPT !.pc = "finish"]
              /\ dirs' = Makedirs(dirs, dloc)
              /\ UNCHANGED <<cwd, files>>
         ELSE IF OpenWriteFails(Makedirs(dirs, dloc), files, ro, floc)
         THEN /\ Handle(init, ExceptionValue("open: OSError"))
              /\ dirs' = Makedirs(dirs, dloc)
              /\ UNCHANGED files
         ELSE /\ init' = [init EXCEPT !.pc = "finish", !.stubWritten = TRUE]
              /\ dirs' = Makedirs(dirs, dloc)
              /\ files' = WriteText(files, floc, StubBody)
              /\ UNCHANGED cwd
  /\ UNCHANGED <<ro, bins, prompt, calls>>

\* lines 127-137: create coding_prompts, restore the working directory,
\* return the success value
initialize_repo_finish ==
  /\ init.pc = "finish"
  /\ LET ploc == Resolve(cwd, prompts_dir(init.target_dir))
     IN  IF MakedirsFails(dirs, files, ro, ploc)
         THEN /\ Handle(init, ExceptionValue("makedirs: OSError"))
              /\ UNCHANGED dirs
         ELSE /\ dirs' = Makedirs(dirs, ploc)
              /\ Handle([init EXCEPT !.promptsMade = TRUE],
                        SuccessValue(init.projectName, init.target_dir))
  /\ UNCHANGED <<files, ro, bins, prompt, calls>>

\* ------------------------------------------------------------------------
\* Specification: the calls do not overlap
\* ------------------------------------------------------------------------
Init ==
  \E e \in Environments :
    /\ cwd = e[1]
    /\ dirs = InitDirs(e[1], e[2])
    /\ files = InitFiles
    /\ ro = InitRo(e[1], e[2])
    /\ bins = InitBins(e[2])
    /\ prompt = PromptIdle
    /\ init = InitIdle
    /\ calls = 0

Next ==
  \/ \E req \in PromptRequests : get_prompt_resolve(req)
  \/ get_prompt_save
  \/ \E req \in InitRequests : initialize_repo_call(req)
  \/ initialize_repo_chdir_parent
  \/ initialize_repo_clone
  \/ initialize_repo_chdir_target
  \/ initialize_repo_install
  \/ initialize_repo_stub
  \/ initialize_repo_finish

Spec == Init /\ [][Next]_vars

\* ------------------------------------------------------------------------
\* Specification of the Asset Encoder: get_prompt calls that embed the
\* style file, for every content of the file up to MaxBytes bytes
\* ------------------------------------------------------------------------
ByteValues == {0, 104, 255}

StyleContents == UNION {[1..n -> ByteValues] : n \in 0..MaxBytes}

EncodeRequests ==
  {PromptRequest(v, "x", None, "", Omitted, List(sp)) :
     v \in Variants,
     sp \in {<<StrEntry(PathStr(StyleLoc))>>,
             <<StrEntry(Str("theme.css")), StrEntry(PathStr(StyleLoc))>>}}

InitEncode ==
  \E bs \in StyleContents :
    /\ cwd = Cwd1
    /\ dirs = InitDirs(Cwd1, "none")
    /\ files = (StyleLoc :> bs) @@ InitFiles
    /\ ro = InitRo(Cwd1, "none")
    /\ bins = InitBins("none")
    /\ prompt = PromptIdle
    /\ init = InitIdle
    /\ calls = 0

NextEncode ==
  \/ \E req \in EncodeRequests : get_prompt_resolve(req)
  \/ get_prompt_save

SpecEncode == InitEncode /\ [][NextEncode]_vars

\* ------------------------------------------------------------------------
\* Specification of the Input Resolver: get_prompt calls over every
\* combination of empty and given projectName, fileName, scriptName and
\* fileMakerPath
\* ------------------------------------------------------------------------
ResolveRequests ==
  {[PromptRequest(v, "x", pn, fn, Omitted, Omitted)
      EXCEPT !.scriptName = sn, !.fileMakerPath = fp] :
     v \in Variants, pn \in {None, EmptyStr, Str("p")}, fn \in {"", "f.fmp12"},
     sn \in {"", "Upload"}, fp \in {"", "fmp://server"}}

NextResolve ==
  \/ \E req \in ResolveRequests : get_prompt_resolve(req)
  \/ get_prompt_save

SpecResolve == Init /\ [][NextResolve]_vars

\* ------------------------------------------------------------------------
\* Specification with overlap: a get_prompt call may start and run between
\* the steps of an initialize_repo call (callers on two threads)
\* ------------------------------------------------------------------------
OverlapPromptRequests ==
  {PromptRequest(v, "x", None, "", Omitted, Omitted) : v \in Variants}

OverlapInitRequests == {InitRequest(None, PathStr(Append(Cwd1, "proj")))}

NextOverlap ==
  \/ \E req \in OverlapPromptRequests : get_prompt_begin(req)
  \/ get_prompt_save
  \/ \E req \in OverlapInitRequests : initialize_repo_call(req)
  \/ initialize_repo_chdir_parent
  \/ initialize_repo_clone
  \/ initialize_repo_chdir_target
  \/ initialize_repo_install
  \/ initialize_repo_stub
  \/ initialize_repo_finish

SpecOverlap == Init /\ [][NextOverlap]_vars

\* ------------------------------------------------------------------------
\* Properties
\* ------------------------------------------------------------------------
Returned(r) == r.kind = "return"
Raised(r) == r.kind = "raise"
ReturnedError(r) == Returned(r) /\ "error" \in DOMAIN r.value
ReturnedOnlyError(r) == Returned(r) /\ DOMAIN r.value = {"error"}

\* text contains part as a contiguous run of tokens
Contains(text, part) ==
  \E i \in 1..(Len(text) - Len(part) + 1) :
    SubSeq(text, i, i + Len(part) - 1) = part

\* a step in which a get_prompt call ends, an initialize_repo call starts
PromptCallEnds == prompt.pc # "done" /\ prompt'.pc = "done"
InitCallStarts == init.pc \in {"idle", "done"} /\ init' # init

\* C1: every get_prompt call (either variant) with an empty widgetIntention
\* returns an {error} value, and creates no directory and writes no file.
C1_EmptyIntentionIsError ==
  [][(prompt' # prompt /\ prompt'.pc = "done" /\ prompt'.req.widgetIntention = "")
       => (ReturnedError(prompt'.ret) /\ dirs' = dirs /\ files' = files)]_vars

\* C2: every initialize_repo call whose projectDir already holds a .git entry
\* returns an {error} value and has no side effect: no subprocess runs, no
\* file or directory is created, the working directory does not change.
C2_ExistingRepoIsError ==
  [][(/\ InitCallStarts
      /\ ~Falsy(init'.req.projectDir)
      /\ Exists(dirs, files, Resolve(cwd, join(init'.req.projectDir, Str(".git")))))
       => (/\ init'.pc = "done"
           /\ ReturnedOnlyError(init'.ret)
           /\ init'.cloneCalls = 0 /\ init'.installCalls = 0
           /\ dirs' = dirs /\ files' = files /\ cwd' = cwd)]_vars

\* C3: whenever initialize_repo hands control back after it changed the
\* working directory, the working directory is the one at the start of the
\* call.
C3_CwdRestored ==
  (init.pc = "done" /\ init.changed) => cwd = init.entry_cwd

C3_Witness ==
  /\ init.pc = "done" /\ init.changed
  /\ init.install = "nonzero"
  /\ cwd = init.entry_cwd /\ cwd # Resolve(cwd, init.target_dir)

\* C4: within one initialize_repo call the clone runs at most once, the
\* install runs at most once and only after the clone exited with zero, and
\* the stub and the coding_prompts directory are made only after the install
\* exited with zero.
C4_SequentialNoRetry ==
  /\ init.cloneCalls <= 1
  /\ init.installCalls <= 1
  /\ init.installCalls = 1 => (init.cloneCalls = 1 /\ init.clone = "zero")
  /\ (init.stubWritten \/ init.promptsMade \/ init.pc \in {"stub", "finish"})
       => (init.clone = "zero" /\ init.installCalls = 1 /\ init.install = "zero")

C4_Witness ==
  /\ init.pc = "done" /\ init.stubWritten /\ init.promptsMade
  /\ init.cloneCalls = 1 /\ init.installCalls = 1

\* C5: when the clone or the install exits non-zero the call ends at that
\* step and returns a value whose only key is error and whose message holds
\* the failing command and the captured error stream.
C5_FailedCommandReported ==
  (init.clone = "nonzero" \/ init.install = "nonzero")
    => /\ init.pc = "done"
       /\ ReturnedOnlyError(init.ret)
       /\ init.e_cmd = (IF init.clone = "nonzero" THEN clone_cmd(init.target_dir)
                        ELSE npm_cmd)
       /\ Contains(init.ret.value.error, init.e_cmd)
       /\ Contains(init.ret.value.error, <<init.e_stderr>>)
       /\ init.clone = "nonzero" => init.installCalls = 0
       /\ ~init.stubWritten /\ ~init.promptsMade

C5_Witness ==
  /\ init.install = "nonzero"
  /\ ReturnedOnlyError(init.ret)
  /\ Contains(init.ret.value.error, <<"npm", "install">>)
  /\ Contains(init.ret.value.error, <<"npm ERR! install failed">>)

\* C6: no call of initialize_repo or get_prompt ever ends with an exception
\* that propagates to the caller; every failure is a returned {error} value.
C6_NoExceptionPropagates ==
  ~Raised(prompt.ret) /\ ~Raised(init.ret)

\* C7: when the directory creation or the file write of get_prompt fails,
\* the call returns an error value that carries the failure message and,
\* under the key prompt, the composed text of the call's inputs.
C7_SaveFailureKeepsPrompt ==
  prompt.save \in {"makedirs_failed", "open_failed"}
    => /\ ReturnedError(prompt.ret)
       /\ "result" \notin DOMAIN prompt.ret.value
       /\ Contains(prompt.ret.value.error,
                    <<IF prompt.save = "makedirs_failed" THEN "makedirs: OSError"
                      ELSE "open: OSError">>)
       /\ "prompt" \in DOMAIN prompt.ret.value
       /\ prompt.ret.value.prompt =
            Prompt(prompt.projectName, prompt.req.widgetIntention, prompt.fileName,
                   prompt.processed_styles, prompt.tech_stack_names,
                   prompt.ts_status, prompt.req.stateLibrary)

C7_Witness ==
  /\ prompt.save = "open_failed"
  /\ prompt.req.widgetIntention = "x"
  /\ Contains(prompt.ret.value.prompt, <<"x">>)

\* C8: a successful get_prompt call writes <target>/coding_prompts/llm_prompt.md
\* where <target> is the working directory if the resolved project name is
\* its basename and <workspace-root>/<project-name> otherwise; the
\* directories on the way exist.
C8_ClaimedTarget(projectName) ==
  IF projectName = basename(PathStr(cwd)) THEN PathStr(cwd)
  ELSE DEFAULT_WORKSPACE \o projectName

C8_ArtifactPath ==
  prompt.save = "written"
    => LET claimed == C8_ClaimedTarget(prompt.projectName)
                        \o <<"coding_prompts", "llm_prompt.md">>
           loc == Resolve(cwd, claimed)
       IN  /\ Resolve(cwd, prompt.prompt_file_path) = loc
           /\ loc \in DOMAIN files
           /\ files[loc] = FileText(prompt.ret.value.prompt)
           /\ Prefixes(Front(loc)) \subseteq dirs

\* C9: get_prompt(widgetIntention="x", fileName="", techStack=[2]) without a
\* projectName writes <workspace-root>/<basename of the working directory>/
\* coding_prompts/llm_prompt.md, and the document holds "Tech stack: React"
\* and the fallback file name (stated for a working directory that exists).
C9_Request == PromptRequest("server", "x", None, "", List(<<2>>), Omitted)

C9_EndToEnd ==
  (prompt.pc = "done" /\ prompt.req = C9_Request /\ cwd \in dirs)
    => LET loc == Resolve(<<>>, DEFAULT_WORKSPACE \o basename(PathStr(cwd))
                                 \o <<"coding_prompts", "llm_prompt.md">>)
       IN  /\ loc \in DOMAIN files
           /\ Contains(files[loc], <<"- Tech stack: ", "React">>)
           /\ Contains(files[loc], <<"- FileMaker file: ",
                                     FileNameFallback(prompt.req.variant)>>)

\* C10: a successful get_prompt call replaces whatever was at the artifact
\* path: afterwards the file holds the document of this call alone and no
\* other file has changed; a get_prompt step that does not end in success
\* changes no file.  So the content is that of the last successful call.
C10_WriteReplaces ==
  [][IF PromptCallEnds /\ prompt'.save = "written"
     THEN LET loc == Resolve(cwd, prompt'.prompt_file_path)
          IN  /\ loc \in DOMAIN files'
              /\ files'[loc] = FileText(prompt'.ret.value.prompt)
              /\ \A f \in DOMAIN files' \ {loc} :
                   f \in DOMAIN files /\ files'[f] = files[f]
              /\ DOMAIN files \subseteq DOMAIN files'
     ELSE prompt' # prompt => files' = files]_vars

C10_Witness ==
  /\ prompt.save = "written"
  /\ prompt.replaced # <<>>
  /\ prompt.replaced # FileText(prompt.ret.value.prompt)
  /\ files[Resolve(cwd, prompt.prompt_file_path)] = FileText(prompt.ret.value.prompt)

\* C11 as stated: on every successful get_prompt call the text persisted at
\* the artifact path is the same text that is returned under the key prompt.
C11_FileIsReturnedText ==
  prompt.save = "written"
    => files[Resolve(cwd, prompt.prompt_file_path)] = prompt.ret.value.prompt

\* C11 as the code has it: on every successful get_prompt call the file at
\* the artifact path holds the heading line "# LLM Prompt" followed by the
\* composed document text, and that text, without the heading, is what is
\* returned under the key prompt.
C11_FileIsHeadingThenText ==
  prompt.save = "written"
    => LET doc == files[Resolve(cwd, prompt.prompt_file_path)]
       IN  /\ Head(doc) = "# LLM Prompt"
           /\ Tail(doc) = prompt.ret.value.prompt
           /\ Head(prompt.ret.value.prompt) # "# LLM Prompt"
           /\ prompt.ret.value.prompt =
                Prompt(prompt.projectName, prompt.req.widgetIntention,
                       prompt.fileName, prompt.processed_styles,
                       prompt.tech_stack_names, prompt.ts_status,
                       prompt.req.stateLibrary)

C11_Witness ==
  /\ prompt.save = "written"
  /\ Returned(prompt.ret) /\ "result" \in DOMAIN prompt.ret.value
  /\ Len(files[Resolve(cwd, prompt.prompt_file_path)])
       = Len(prompt.ret.value.prompt) + 1

\* the codes a call works on, the codes of the catalog among them in the
\* order of the input, and the name the catalog gives a code
TechStackCodes(req) ==
  IF req.techStack.given THEN req.techStack.items ELSE DefaultTechStack(req.variant)

CatalogCodes(req) == SelectSeq(TechStackCodes(req), LAMBDA c : c \in {1, 2, 3})

CatalogName(c) == IF c = 1 THEN "CommonJS" ELSE IF c = 2 THEN "React" ELSE "Next.js"

CatalogRank(name) ==
  IF name = "CommonJS" THEN 1 ELSE IF name = "React" THEN 2 ELSE 3

\* a step in which get_prompt resolves the inputs of a call that has a
\* widgetIntention and can name its project
PromptCallResolves ==
  /\ prompt.pc # "compose" /\ prompt' # prompt
  /\ prompt'.req.widgetIntention # ""
  /\ ~Falsy(prompt'.req.projectName) \/ cwd \in dirs

\* C12: for every techStack of get_prompt only the codes 1, 2 and 3
\* contribute a name (CommonJS, React, Next.js) to the stack list, one name
\* per occurrence; every other code contributes nothing, raises nothing and
\* does not end the call: the call goes on to compose the document.
C12_OnlyCatalogCodesNamed ==
  [][PromptCallResolves
       => LET names == prompt'.tech_stack_names
              codes == TechStackCodes(prompt'.req)
          IN  /\ prompt'.pc = "compose"
              /\ Len(names) = Len(CatalogCodes(prompt'.req))
              /\ \A i \in 1..Len(names) : names[i] \in {"CommonJS", "React", "Next.js"}
              /\ \A c \in {1, 2, 3} :
                   (\E i \in 1..Len(names) : names[i] = CatalogName(c))
                     <=> (\E k \in 1..Len(codes) : codes[k] = c)]_vars

C12_Witness ==
  /\ prompt.save = "written"
  /\ prompt.req.techStack = List(<<3, 7, 1>>)
  /\ Len(prompt.tech_stack_names) = 2
  /\ Contains(prompt.ret.value.prompt, <<"Next.js">>)
  /\ Contains(prompt.ret.value.prompt, <<"CommonJS">>)
  /\ ~Contains(prompt.ret.value.prompt, <<"React">>)

\* C13 as stated: the names in the rendered stack list appear in catalog
\* order (CommonJS before React before Next.js), whatever the order of the
\* codes in the input.
C13_CatalogOrder ==
  prompt.save = "written"
    => /\ Contains(prompt.ret.value.prompt,
                    <<"- Tech stack: ">> \o StackText(prompt.tech_stack_names))
       /\ \A i, j \in 1..Len(prompt.tech_stack_names) :
            i < j => CatalogRank(prompt.tech_stack_names[i])
                       <= CatalogRank(prompt.tech_stack_names[j])

\* C13 as the code has it: the names in the rendered stack list appear in
\* the order of their codes in the input (an omitted techStack counting as
\* its default), one name per occurrence of a code of the catalog.
C13_InputOrder ==
  /\ prompt.pc = "compose"
       => prompt.tech_stack_names =
            [i \in 1..Len(CatalogCodes(prompt.req)) |->
               CatalogName(CatalogCodes(prompt.req)[i])]
  /\ prompt.save = "written"
       => Contains(prompt.ret.value.prompt,
            <<"- Tech stack: ">>
            \o JoinComma([i \in 1..Len(CatalogCodes(prompt.req)) |->
                            <<CatalogName(CatalogCodes(prompt.req)[i])>>])
            \o <<", TypeScript: ">>)

C13_Witness ==
  /\ prompt.save = "written"
  /\ prompt.req.techStack = List(<<3, 7, 1>>)
  /\ Contains(prompt.ret.value.prompt,
              <<"- Tech stack: ", "Next.js", ", ", "CommonJS", ", TypeScript: ">>)

\* C14 as stated: the encoded sequence has the length and the order of
\* stylePaths; its i-th entry is "<<" + base64(file bytes) + ">>" when the
\* i-th input denotes an existing regular file, and the i-th input string
\* unchanged when it does not exist or is a directory.
C14_EncodedWhenRegularFile ==
  prompt.pc = "compose"
    => LET input == prompt.req.stylePaths.items
           output == prompt.processed_styles
       IN  /\ Len(output) = Len(input)
           /\ \A i \in 1..Len(input) :
                input[i].t = "str"
                  => LET loc == Resolve(cwd, input[i].s)
                     IN  output[i].s =
                           IF loc \in DOMAIN files
                           THEN <<"<<">> \o b64encode(files[loc]) \o <<">>">>
                           ELSE PathTokens(input[i].s)

\* C14 as the code has it: the encoded sequence has the length and the order
\* of stylePaths; its i-th entry is "<<" + base64(file bytes) + ">>" when the
\* i-th input denotes an existing regular file that can be read, and the
\* i-th input string unchanged when it does not exist, is a directory, or
\* cannot be read.
C14_EncodedWhenReadable ==
  prompt.pc = "compose"
    => LET input == prompt.req.stylePaths.items
           output == prompt.processed_styles
       IN  /\ Len(output) = Len(input)
           /\ \A i \in 1..Len(input) :
                input[i].t = "str"
                  => LET loc == Resolve(cwd, input[i].s)
                     IN  /\ output[i].t = "str"
                         /\ output[i].s =
                              IF loc \in DOMAIN files /\ loc \notin ro
                              THEN <<"<<">> \o b64encode(files[loc]) \o <<">>">>
                              ELSE PathTokens(input[i].s)

C14_Witness ==
  /\ prompt.pc = "compose"
  /\ Len(prompt.req.stylePaths.items) = 4
  /\ prompt.processed_styles[1].s = <<"<<", "a", "G", "k", "=", ">>">>
  /\ prompt.processed_styles[2].s = <<"theme.css">>
  /\ prompt.processed_styles[3].s = <<"", "/", "home", "/", "locked.css">>
  /\ prompt.processed_styles[4].s = <<"", "/", "home">>
  /\ Front(StyleLoc) \in dirs /\ LockedLoc \in DOMAIN files

\* the entries of stylePaths that name a regular file whose read raises
ReadRaises(req) ==
  {i \in 1..Len(req.stylePaths.items) :
     /\ req.stylePaths.items[i].t = "str"
     /\ Resolve(cwd, req.stylePaths.items[i].s) \in DOMAIN files
     /\ Resolve(cwd, req.stylePaths.items[i].s) \in ro}

\* coding_prompts/llm_prompt.md can be created or rewritten under the
\* working directory
CwdWritable ==
  LET dloc == Append(cwd, "coding_prompts")
  IN  /\ cwd \in dirs
      /\ ~MakedirsFails(dirs, files, ro, dloc)
      /\ ~OpenWriteFails(Makedirs(dirs, dloc), files, ro, Append(dloc, "llm_prompt.md"))

\* C15: asset encoding never fails the get_prompt request: when the read of
\* a stylePaths entry raises, the entry is emitted unchanged and the call
\* (with a widgetIntention, in a writable working directory) goes on to
\* compose the document and persist it.
C15_EncodingNeverFailsCall ==
  [][(/\ PromptCallEnds
      /\ prompt'.req.widgetIntention # ""
      /\ Falsy(prompt'.req.projectName)
      /\ CwdWritable
      /\ ReadRaises(prompt'.req) # {})
       => (/\ \A i \in ReadRaises(prompt'.req) :
                prompt'.processed_styles[i].s
                  = PathTokens(prompt'.req.stylePaths.items[i].s)
           /\ prompt'.save = "written"
           /\ Resolve(cwd, prompt'.prompt_file_path) \in DOMAIN files'
           /\ \A i \in ReadRaises(prompt'.req) :
                Contains(files'[Resolve(cwd, prompt'.prompt_file_path)],
                         PathTokens(prompt'.req.stylePaths.items[i].s)))]_vars

\* base64 decoding of a sequence of characters, as a sequence of bytes
B64Value(c) == CHOOSE k \in 0..63 : B64Alphabet[k + 1] = c

RECURSIVE b64decode(_)
b64decode(cs) ==
  IF cs = <<>> THEN <<>>
  ELSE LET pad == IF cs[3] = "=" THEN 2 ELSE IF cs[4] = "=" THEN 1 ELSE 0
           v3 == IF pad = 2 THEN 0 ELSE B64Value(cs[3])
           v4 == IF pad >= 1 THEN 0 ELSE B64Value(cs[4])
           v == B64Value(cs[1]) * 262144 + B64Value(cs[2]) * 4096 + v3 * 64 + v4
           bytes == <<v \div 65536, (v \div 256) % 256, v % 256>>
       IN  SubSeq(bytes, 1, 3 - pad) \o b64decode(SubSeq(cs, 5, Len(cs)))

\* the text between the first "<<" and the first ">>" of a document
FirstIndex(text, token) ==
  CHOOSE i \in 1..Len(text) : text[i] = token /\ \A k \in 1..(i - 1) : text[k] # token

Payload(text) ==
  SubSeq(text, FirstIndex(text, "<<") + 1, FirstIndex(text, ">>") - 1)

C17_StubIdempotent ==
  [][(init.pc = "stub" /\ init' # init)
       => LET floc == Resolve(cwd, fm_service_path(init.target_dir))
          IN  /\ \A f \in DOMAIN files : f \in DOMAIN files' /\ files'[f] = files[f]
              /\ DOMAIN files' \subseteq DOMAIN files \cup {floc}
              /\ floc \in DOMAIN files => (files' = files /\ ~init'.stubWritten)
              /\ floc \in DOMAIN files' \ DOMAIN files
                   => (files'[floc] = StubBody /\ init'.stubWritten)]_vars

C17_Witness ==
  /\ init.pc = "finish" /\ ~init.stubWritten
  /\ init.target_dir = PathStr(Append(Cwd1, "proj"))
  /\ files[Cwd1 \o <<"proj", "src", "services", "FileMakerService.js">>]
       = TemplateStubBody

\* C18: every value returned by initialize_repo has exactly one of the keys
\* result and error; a success value carries project_path equal to the
\* projectDir argument and is returned only when clone and install both
\* exited with zero and src/services/FileMakerService.js and coding_prompts
\* exist under projectDir.
C18_ReturnedShape ==
  (init.pc = "done" /\ Returned(init.ret))
    => LET keys == DOMAIN init.ret.value
           tloc == Resolve(init.entry_cwd, init.req.projectDir)
       IN  /\ ("result" \in keys \/ "error" \in keys)
           /\ ~("result" \in keys /\ "error" \in keys)
           /\ "result" \in keys
                => /\ "project_path" \in keys
                   /\ init.ret.value.project_path = init.req.projectDir
                   /\ init.clone = "zero" /\ init.install = "zero"
                   /\ tloc \o <<"src", "services", "FileMakerService.js">>
                        \in DOMAIN files
                   /\ Append(tloc, "coding_prompts") \in dirs

\* C19: every get_prompt call with a non-empty widgetIntention, projectName
\* omitted, string stylePaths and a writable target directory returns a
\* success value {result, prompt} with no error key; result names the
\* artifact path that was written and prompt is the composed text.
C19_SuccessValue ==
  [][(/\ PromptCallEnds
      /\ prompt'.req.widgetIntention # ""
      /\ Falsy(prompt'.req.projectName)
      /\ \A i \in 1..Len(prompt'.req.stylePaths.items) :
           prompt'.req.stylePaths.items[i].t = "str"
      /\ CwdWritable)
       => (/\ Returned(prompt'.ret)
           /\ DOMAIN prompt'.ret.value = {"result", "prompt"}
           /\ Contains(prompt'.ret.value.result, PathTokens(prompt'.prompt_file_path))
           /\ Resolve(cwd, prompt'.prompt_file_path) \in DOMAIN files'
           /\ prompt'.ret.value.prompt =
                Prompt(prompt'.projectName, prompt'.req.widgetIntention,
                       prompt'.fileName, prompt'.processed_styles,
                       prompt'.tech_stack_names, prompt'.ts_status,
                       prompt'.req.stateLibrary))]_vars

\* C20: in get_prompt fileName, scriptName and fileMakerPath are defaulted
\* independently: each is its fixed placeholder exactly when the argument is
\* empty and the argument unchanged otherwise, whatever the other fields
\* are; an empty projectName becomes the basename of the working directory.
C20_IndependentDefaults ==
  prompt.pc = "compose"
    => /\ prompt.fileName =
            (IF prompt.req.fileName # "" THEN prompt.req.fileName
             ELSE IF prompt.req.variant = "tool" THEN "jsDev.fmp12" ELSE "(default)")
       /\ prompt.scriptName =
            (IF prompt.req.scriptName # "" THEN prompt.req.scriptName ELSE "JS * fetch")
       /\ prompt.fileMakerPath =
            (IF prompt.req.fileMakerPath # "" THEN prompt.req.fileMakerPath
             ELSE "(use repo default)")
       /\ prompt.projectName =
            (IF prompt.req.projectName \in {None, EmptyStr} THEN <<Last(cwd)>>
             ELSE prompt.req.projectName)

C20_Witness ==
  /\ prompt.pc = "compose"
  /\ prompt.req.projectName = EmptyStr /\ prompt.projectName = <<"w">>
  /\ prompt.req.fileName = "" /\ prompt.fileName = "jsDev.fmp12"
  /\ prompt.req.scriptName = "Upload" /\ prompt.scriptName = "Upload"
  /\ prompt.req.fileMakerPath = "" /\ prompt.fileMakerPath = "(use repo default)"

\* C21: prompt_tool.get_prompt can only succeed after the required inputs
\* have been collected; a call made when they have not been collected
\* returns an error value.  The program has no operation that collects
\* inputs and keeps no record of a collection, so the first call of a
\* process is made with nothing collected.
C21_UncollectedIsError ==
  [][(/\ PromptCallEnds
      /\ calls' = 1
      /\ prompt'.req.variant = "tool"
      /\ cwd \in dirs
      /\ \A i \in 1..Len(prompt'.req.stylePaths.items) :
           prompt'.req.stylePaths.items[i].t = "str")
       => ReturnedError(prompt'.ret)]_vars

\* C22: initialize_repo requires an absolute projectDir: every call whose
\* projectDir is missing or is not an absolute path returns an error value
\* and never invokes the clone subprocess (stated for a working directory
\* that exists).
C22_RelativeDirIsError ==
  [][(/\ init' # init
      /\ init'.pc = "done"
      /\ init'.entry_cwd \in dirs
      /\ Falsy(init'.req.projectDir) \/ ~StartsWithSep(init'.req.projectDir))
       => (ReturnedOnlyError(init'.ret) /\ init'.cloneCalls = 0)]_vars

\* C23: for every projectDir that initialize_repo accepts, one written with
\* a trailing separator included, the clone runs in the parent directory of
\* projectDir with the last component of projectDir as its destination, so
\* that it lands at projectDir, and the install then runs in projectDir.
C23_CloneLandsAtProjectDir ==
  [][LET tloc == Resolve(init.entry_cwd, init.req.projectDir)
     IN  /\ (init.pc = "clone" /\ init'.cloneCalls = 1)
              => /\ cwd = Front(tloc)
                 /\ basename(init.target_dir) = Str(Last(tloc))
                 /\ Resolve(cwd, basename(init.target_dir)) = tloc
                 /\ init'.clone = "zero" => Append(tloc, ".git") \in dirs'
         /\ (init.pc = "install" /\ init'.installCalls = 1) => cwd = tloc]_vars

\* C24: in both variants the composed document holds every resolved field as
\* its resolved value: the project name and the file name, and the
\* file-maker path and the script name (in the widget.config block of the
\* TASKS section), so that changing one of these inputs changes the document.
C24_FieldsInterpolated ==
  prompt.save = "written"
    => /\ Contains(prompt.ret.value.prompt, PathTokens(prompt.projectName))
       /\ Contains(prompt.ret.value.prompt, <<prompt.fileName>>)
       /\ Contains(prompt.ret.value.prompt, <<prompt.fileMakerPath>>)
       /\ Contains(prompt.ret.value.prompt, <<prompt.scriptName>>)

\* C25: after an install failure in initialize_repo the side effects made so
\* far remain: the step removes nothing, the cloned tree is still at
\* projectDir, and neither the stub nor the coding_prompts directory has
\* been created by this call.
C25_InstallFailureLeavesClone ==
  [][(init.pc = "install" /\ init'.install = "nonzero")
       => LET tloc == Resolve(init.entry_cwd, init.req.projectDir)
          IN  /\ init'.pc = "done" /\ ReturnedOnlyError(init'.ret)
              /\ dirs' = dirs /\ files' = files
              /\ Append(tloc, ".git") \in dirs'
              /\ Append(tloc, "package.json") \in DOMAIN files'
              /\ ~init'.stubWritten /\ ~init'.promptsMade
              /\ Append(tloc, "coding_prompts") \notin dirs'
              /\ \A f \in DOMAIN files' :
                   tloc \in Prefixes(f) => files'[f] # StubBody]_vars

C25_Witness ==
  /\ init.pc = "done" /\ init.install = "nonzero"
  /\ init.req.projectDir = PathStr(Append(Cwd1, "proj"))
  /\ Cwd1 \o <<"proj", ".git">> \in dirs
  /\ Cwd1 \o <<"proj", "package.json">> \in DOMAIN files
  /\ Cwd1 \o <<"proj", "coding_prompts">> \notin dirs
  /\ Cwd1 \o <<"proj", "src", "services", "FileMakerService.js">> \notin DOMAIN files

\* C26: after any sequence of completed, non-overlapping initialize_repo and
\* get_prompt calls the working directory is the one before the first call:
\* no step of get_prompt changes it, an initialize_repo call starts from the
\* working directory left by the calls before it, and when it hands control
\* back the working directory is again the one at its start.
C26_CwdSameAfterCalls ==
  [][/\ prompt' # prompt => cwd' = cwd
     /\ (init.pc \in {"idle", "done"} /\ init' # init)
          => (cwd' = cwd /\ init'.entry_cwd = cwd)
     /\ init.pc \notin {"idle", "done"}
          => /\ init'.entry_cwd = init.entry_cwd
             /\ init'.pc = "done" => cwd' = init.entry_cwd]_vars

C26_Witness ==
  /\ calls = 2
  /\ init.pc = "done" /\ init.changed
  /\ Returned(init.ret) /\ "result" \in DOMAIN init.ret.value
  /\ prompt.pc = "done" /\ prompt.save = "written"
  /\ cwd = Cwd1 /\ init.entry_cwd = Cwd1

\* C27: whenever get_prompt is called with projectName omitted or empty and
\* a widgetIntention, the resolved project name is the basename of the
\* working directory, so the target directory is the working directory and
\* the artifact path is <working directory>/coding_prompts/llm_prompt.md,
\* never the path built from the workspace root.
C27_OmittedNameTargetsCwd ==
  Falsy(prompt.req.projectName)
    => /\ prompt.pc = "compose" => prompt.projectName = <<Last(cwd)>>
       /\ prompt.save \in {"written", "makedirs_failed", "open_failed"}
            => /\ prompt.projectName = <<Last(cwd)>>
               /\ prompt.prompt_file_path
                    = PathStr(cwd) \o <<"coding_prompts", "llm_prompt.md">>
       /\ prompt.save = "written"
            => cwd \o <<"coding_prompts", "llm_prompt.md">> \in DOMAIN files

C27_Witness ==
  /\ prompt.save = "written"
  /\ prompt.req.projectName = EmptyStr
  /\ cwd = Cwd1
  /\ Cwd1 \o <<"coding_prompts", "llm_prompt.md">> \in DOMAIN files
  /\ <<"home", "javascript">> \notin dirs

\* C28: for every projectName, also one with separators, parent-directory
\* components or an absolute path, get_prompt creates directories and
\* writes files only inside the working directory or inside the workspace
\* root.
C28_WritesInsideTrees ==
  [][prompt' # prompt
       => \A loc \in (dirs' \ dirs) \cup (DOMAIN files' \ DOMAIN files)
                     \cup {f \in DOMAIN files \cap DOMAIN files' : files'[f] # files[f]} :
            \/ cwd \in Prefixes(loc)
            \/ Resolve(<<>>, DEFAULT_WORKSPACE) \in Prefixes(loc)]_vars

\* C29: once a clone into projectDir has succeeded, the next initialize_repo
\* call with the same projectDir (and every one after it, by the same step)
\* ends in the precondition failure without running a subprocess and
\* without creating anything; so if the first call failed at install, no
\* later call creates the stub or the coding_prompts directory there.
C29_ClonedDirIsRefused ==
  [][(/\ init.pc = "done" /\ init.clone = "zero"
      /\ init' # init
      /\ init'.req.projectDir = init.req.projectDir)
       => (/\ init'.pc = "done"
           /\ ReturnedOnlyError(init'.ret)
           /\ Contains(init'.ret.value.error,
                <<"' is already a git repository. Cannot initialize a new repository here.">>)
           /\ init'.cloneCalls = 0 /\ init'.installCalls = 0
           /\ dirs' = dirs /\ files' = files /\ cwd' = cwd)]_vars

C29_Witness ==
  /\ init.pc = "done" /\ init.cloneCalls = 0
  /\ init.req.projectDir = PathStr(Append(Cwd1, "proj"))
  /\ ReturnedOnlyError(init.ret)
  /\ Contains(init.ret.value.error,
       <<"' is already a git repository. Cannot initialize a new repository here.">>)
  /\ Cwd1 \o <<"proj", "package.json">> \in DOMAIN files
  /\ Cwd1 \o <<"proj", "coding_prompts">> \notin dirs
  /\ Cwd1 \o <<"proj", "src", "services", "FileMakerService.js">> \notin DOMAIN files

\* an initialize_repo call is between its change of the working directory
\* and the restoration
InitHoldsCwd == init.pc \notin {"idle", "done"} /\ init.changed

\* C30 as stated: a get_prompt call with projectName omitted that runs
\* between initialize_repo's change of the working directory and its
\* restoration still resolves its project name and its target directory
\* from the working directory the process had before initialize_repo
\* started.
C30_ChangeNotObservable ==
  [][(InitHoldsCwd /\ prompt' # prompt /\ Falsy(prompt'.req.projectName))
       => /\ prompt'.pc = "compose"
               => prompt'.projectName = basename(PathStr(init.entry_cwd))
          /\ prompt'.save = "written"
               => prompt'.prompt_file_path
                    = PathStr(init.entry_cwd) \o <<"coding_prompts", "llm_prompt.md">>]_vars

\* C30 as the code has it: such a call resolves its project name from the
\* working directory of the process at the moment it reads it, and its
\* target directory from the working directory at the moment it saves (the
\* working directory if its basename is the resolved name, else
\* <workspace-root>/<name>): between the change and the restoration these
\* are initialize_repo's directories, so the change is observable.
C30_OverlapReadsCurrentCwd ==
  [][(prompt' # prompt /\ Falsy(prompt'.req.projectName))
       => /\ prompt'.pc = "compose" => prompt'.projectName = <<Last(cwd)>>
          /\ prompt'.save = "written"
               => prompt'.prompt_file_path
                    = (IF prompt.projectName = <<Last(cwd)>> THEN PathStr(cwd)
                       ELSE DEFAULT_WORKSPACE \o prompt.projectName)
                      \o <<"coding_prompts", "llm_prompt.md">>]_vars

C30_Witness ==
  /\ init.pc = "install" /\ init.changed
  /\ init.entry_cwd = Cwd1 /\ cwd = Append(Cwd1, "proj")
  /\ prompt.save = "written" /\ Falsy(prompt.req.projectName)
  /\ prompt.projectName = <<"proj">>
  /\ Cwd1 \o <<"proj", "coding_prompts", "llm_prompt.md">> \in DOMAIN files

====
